---------------------------- MODULE Spec2Model ----------------------------
(***************************************************************************)
(* Model of the persistence layer of the library bot (src/db.py): the      *)
(* tables created by init_db, the facade functions that read and write     *)
(* them, and the two storage engines the module selects between            *)
(* (USE_POSTGRES).  A facade call is run by a caller p.  Calls that issue  *)
(* one statement and commit are one step; add_book_part, inc_download and  *)
(* upsert_user are modelled statement by statement, with the uncommitted   *)
(* writes of the open connection kept apart from the committed tables, so  *)
(* that interleavings of callers and a failure between two statements are  *)
(* behaviours of the model.                                                *)
(*                                                                         *)
(* Columns no modelled statement reads (books.type, books.purchase_link,   *)
(* book_parts.file_id, book_parts.part_index) are left out of the rows.    *)
(***************************************************************************)
EXTENDS Integers, Sequences, FiniteSets, TLC

\* ------------------------------------------------------------------ bounds
\* callers running facade functions at the same time
NProcs == 2
\* caps of the specifications with concurrent callers
ConcMaxBooks == 1
ConcMaxClock == 0
MaxParts == 2
MaxDownloads == 2
DlMaxBooks == 2
\* caps of the specification of users
UsersMaxClock == 1
\* caps of the specification of categories
CatMaxCategories == 1
CatMaxBooks == 2
CatMaxClock == 0
\* caps of the specification of saved books
SavedMaxBooks == 1
SavedMaxParts == 1
SavedMaxClock == 1
\* caps of the specification of search
SearchMaxBooks == 2
SearchMaxDownloads == 1
SearchMaxClock == 1
\* caps of the specification of the log of missing queries
MqMaxRows == 3
MqMaxClock == 1
\* updates passed through the middlewares
MaxUpdates == 2
\* caps of the specification of wishes
WishMaxRows == 3
WishMaxClock == 1

\* SQL NULL in an integer column (ids start at 1)
NULL == 0

Procs == 1..NProcs
\* sizes and durations passed to add_book_part (distinct, so that the two
\* aggregates cannot be confused)
PartInputs == {[size |-> 1, duration_seconds |-> 3], [size |-> 2, duration_seconds |-> 0]}

VARIABLES
    USE_POSTGRES,   \* bool(DATABASE_URL): the engine in use
    fts5,           \* SQLite: init_db created books_fts and its triggers
    now,            \* datetime.utcnow()
    users,          \* committed rows of table users
    categories,     \* committed rows of table categories
    books,          \* committed rows of table books
    book_parts,     \* committed rows of table book_parts
    saved_books,    \* committed rows of table saved_books
    books_fts,      \* SQLite: entries of the FTS5 index books_fts
    seq,            \* AUTOINCREMENT / SERIAL counters per table
    locks,          \* locks held by open transactions
    pc,             \* per caller: the next statement of the call in progress
    call,           \* per caller: arguments of the call in progress
    tx,             \* per caller: uncommitted writes of its connection
    ret,            \* outcome of the call that finished last
    missing_queries,\* committed rows of table missing_queries, in id order
    wishes,         \* committed rows of table wishes, in id order
    catalog,        \* schema objects that exist (committed)
    boot,           \* per process start: how far main has come
    mw              \* the middlewares and the updates passing through them

vars == <<USE_POSTGRES, fts5, now, users, categories, books, book_parts,
          saved_books, books_fts, seq, locks, pc, call, tx, ret,
          missing_queries, wishes, catalog, boot, mw>>

\* the state outside the catalogue of books and users
shell == <<missing_queries, wishes, catalog, boot, mw>>

Updates == 1..MaxUpdates

\* TrafficMiddleware() has count 0; no update has arrived.  For an update:
\* at is where it is in the chain, raised the calls that raised on its way,
\* invoked the number of calls of the downstream handler, produced the
\* handler's outcome and returned what the chain gave back.
NoUpdates ==
    [count |-> 0,
     at |-> [u \in Updates |-> "new"],
     raised |-> [u \in Updates |-> {}],
     invoked |-> [u \in Updates |-> 0],
     produced |-> [u \in Updates |-> "none"],
     returned |-> [u \in Updates |-> "none"]]

\* main of a process start: phase is the statement it is at, made the schema
\* objects its init_db transaction has created and not committed
Polling == [phase |-> "polling", made |-> {}, error |-> "none"]
NotStarted == [phase |-> "off", made |-> {}, error |-> "none"]

\* ----------------------------------------------------------------- helpers
Max(a, b) == IF a >= b THEN a ELSE b

RECURSIVE SumSize(_)
SumSize(S) ==
    IF S = {} THEN 0
    ELSE LET r == CHOOSE x \in S : TRUE IN r.size + SumSize(S \ {r})

RECURSIVE SumDuration(_)
SumDuration(S) ==
    IF S = {} THEN 0
    ELSE LET r == CHOOSE x \in S : TRUE IN r.duration_seconds + SumDuration(S \ {r})

RECURSIVE MaxId(_)
MaxId(S) ==
    IF S = {} THEN 0
    ELSE LET r == CHOOSE x \in S : TRUE IN Max(r.id, MaxId(S \ {r}))

NoCall == [op |-> "none"]
NoTx == [parts |-> {}, books |-> {}, users |-> {}]
NoRet == [op |-> "none", status |-> "ok"]

\* the rows of a table with the given primary key
RowsById(rows, id) == {r \in rows : r.id = id}

\* part rows attached to a book
PartsOf(book_id) == {r \in book_parts : r.book_id = book_id}

\* -------------------------------------------------------------------- text
\* A string is a sequence of characters.  "U+0414" and "U+0434" stand for a
\* non-ASCII capital letter and its small letter; "'" and "%" are punctuation.
PyLower(c) ==
    CASE c = "A" -> "a"
      [] c = "B" -> "b"
      [] c = "U+0414" -> "U+0434"
      [] OTHER -> c

\* SQLite's built-in lower() and LIKE fold ASCII letters only
SqliteLower(c) ==
    CASE c = "A" -> "a"
      [] c = "B" -> "b"
      [] OTHER -> c

IsSeparator(c) == c \in {" ", "'", "%"}

\* the words of a text, case-folded: what the FTS5 unicode61 tokenizer and
\* to_tsvector('simple', ...) index
RECURSIVE Words(_, _)
Words(s, cur) ==
    IF s = <<>> THEN (IF cur = <<>> THEN <<>> ELSE <<cur>>)
    ELSE IF IsSeparator(Head(s))
         THEN (IF cur = <<>> THEN <<>> ELSE <<cur>>) \o Words(Tail(s), <<>>)
         ELSE Words(Tail(s), Append(cur, PyLower(Head(s))))

Tokenize(s) == Words(s, <<>>)

\* title and author as one document
Document(title, author) == Tokenize(title) \o Tokenize(author)

\* BEFORE INSERT OR UPDATE trigger books_search_vector_trigger (Postgres)
books_search_vector_trigger(row) ==
    [row EXCEPT !.search_vector = Document(row.title, row.author)]

\* ------------------------------------------------------------------- locks
\* SQLite serialises writers with one lock on the database file; Postgres
\* locks rows, in the mode the statement needs.
DB == <<"database", 0>>

Conflict(m1, m2) ==
    \/ m1 = "RESERVED" /\ m2 = "RESERVED"
    \/ m1 = "UPDATE" /\ m2 \in {"KEY SHARE", "NO KEY UPDATE", "UPDATE"}
    \/ m2 = "UPDATE" /\ m1 \in {"KEY SHARE", "NO KEY UPDATE", "UPDATE"}
    \/ m1 = "NO KEY UPDATE" /\ m2 = "NO KEY UPDATE"

\* the locks a write statement of caller p takes on the given rows
WriteLocks(p, table, ids, mode) ==
    IF USE_POSTGRES
    THEN {[proc |-> p, target |-> <<table, id>>, mode |-> mode] : id \in ids}
    ELSE {[proc |-> p, target |-> DB, mode |-> "RESERVED"]}

Grantable(wanted) ==
    \A l \in wanted : \A h \in locks :
        h.proc = l.proc \/ h.target # l.target \/ ~Conflict(h.mode, l.mode)

Release(p) == {l \in locks : l.proc # p}

\* --------------------------------------------------------------- the store
\* After init_db on an empty store: every table exists and is empty.  On
\* SQLite the creation of books_fts and its triggers is wrapped in
\* try/except: it may have been skipped.
Init ==
    /\ USE_POSTGRES \in BOOLEAN
    /\ fts5 \in (IF USE_POSTGRES THEN {FALSE} ELSE BOOLEAN)
    /\ now = 0
    /\ users = {}
    /\ categories = {}
    /\ books = {}
    /\ book_parts = {}
    /\ saved_books = {}
    /\ books_fts = {}
    /\ seq = [categories |-> 0, books |-> 0, book_parts |-> 0]
    /\ locks = {}
    /\ pc = [p \in Procs |-> "idle"]
    /\ call = [p \in Procs |-> NoCall]
    /\ tx = [p \in Procs |-> NoTx]
    /\ ret = NoRet
    /\ missing_queries = <<>>
    /\ wishes = <<>>
    /\ catalog = {"tables"} \cup (IF USE_POSTGRES \/ fts5 THEN {"search"} ELSE {})
    /\ boot = [p \in Procs |-> Polling]
    /\ mw = NoUpdates

\* datetime.utcnow(): the clock does not go back; two calls may read the
\* same instant.
Timestamps == {now, now + 1}

config == <<USE_POSTGRES, fts5>>
procvars == <<pc, call, tx>>

Ok(op) == [op |-> op, status |-> "ok"]
\* an exception leaving the facade function; "at" is the statement it left from
Raised(op, at) == [op |-> op, status |-> "error", at |-> at]

\* conn.commit(): the uncommitted writes of caller p become the committed rows
CommittedParts(p) == book_parts \cup tx[p].parts

CommittedBooks(p) ==
    {r \in books : \A w \in tx[p].books : w.id # r.id} \cup tx[p].books

CommittedUsers(p) ==
    {r \in users : \A w \in tx[p].users : w.user_id # r.user_id} \cup tx[p].users

CommittedSeq(p) ==
    [seq EXCEPT !.book_parts = Max(@, MaxId(tx[p].parts))]

\* ------------------------------------------------------------ books (rows)
\* the row INSERT INTO books(title, author, category_id, type, created_at)
\* stores: the aggregates and the counter take their DEFAULT 0
NewBook(id, title, author, category_id, t) ==
    LET row == [id |-> id, title |-> title, author |-> author,
                category_id |-> category_id, total_size |-> 0,
                duration_seconds |-> 0, created_at |-> t, downloads |-> 0,
                search_vector |-> <<>>]
    IN IF USE_POSTGRES THEN books_search_vector_trigger(row) ELSE row

\* trigger books_ai / books_au (SQLite): add the row's text to the index
FtsInsert(fts, row) ==
    IF fts5
    THEN fts \cup {[rowid |-> row.id, title |-> row.title, author |-> row.author]}
    ELSE fts

\* REFERENCES ... is enforced by Postgres.  On SQLite enforcement is a
\* per-connection setting, off unless PRAGMA foreign_keys = ON is issued on
\* that connection: connect() does not issue it.
ForeignKeysEnforced == USE_POSTGRES

\* create_book: one INSERT and commit
create_book(p, title, author, category_id) ==
    /\ pc[p] = "idle"
    /\ Grantable(WriteLocks(p, "books", {}, "UPDATE"))
    /\ \E t \in Timestamps :
        LET id == seq.books + 1
            fk_ok == \/ ~ForeignKeysEnforced
                     \/ category_id = NULL
                     \/ RowsById(categories, category_id) # {}
            row == NewBook(id, title, author, category_id, t)
        IN /\ now' = t
           /\ seq' = [seq EXCEPT !.books = id]
           /\ IF fk_ok
              THEN /\ books' = books \cup {row}
                   /\ books_fts' = FtsInsert(books_fts, row)
                   /\ ret' = [op |-> "create_book", status |-> "ok", value |-> id]
              ELSE /\ UNCHANGED <<books, books_fts>>
                   /\ ret' = Raised("create_book", "insert")
    /\ UNCHANGED <<config, shell, users, categories, book_parts, saved_books, locks, procvars>>

\* ON DELETE CASCADE of book_parts.book_id and saved_books.book_id
CascadeBookDelete(rows, book_id) ==
    IF ForeignKeysEnforced THEN {r \in rows : r.book_id # book_id} ELSE rows

\* delete_book: one DELETE and commit.  Trigger books_ad runs after the row
\* is gone from the content table of books_fts, so whether the index entries
\* of the row are found and removed is left open.
delete_book(p, book_id) ==
    /\ pc[p] = "idle"
    /\ LET rows == RowsById(books, book_id)
       IN /\ Grantable(WriteLocks(p, "books", {r.id : r \in rows}, "UPDATE"))
          /\ books' = books \ rows
          /\ IF rows = {}
             THEN UNCHANGED <<book_parts, saved_books, books_fts>>
             ELSE /\ book_parts' = CascadeBookDelete(book_parts, book_id)
                  /\ saved_books' = CascadeBookDelete(saved_books, book_id)
                  /\ \E removed \in (IF fts5 THEN BOOLEAN ELSE {FALSE}) :
                        books_fts' = IF removed
                                     THEN {e \in books_fts : e.rowid # book_id}
                                     ELSE books_fts
    /\ ret' = Ok("delete_book")
    /\ UNCHANGED <<config, shell, now, users, categories, seq, locks, procvars>>

\* ----------------------------------------------------------- add_book_part
\* UPDATE books SET total_size = COALESCE(total_size,0) + ?,
\*                  duration_seconds = COALESCE(duration_seconds,0) + ?
AddTotalsSizeOnly(row, size, duration_seconds) ==
    [row EXCEPT !.total_size = @ + size]

AddTotals(row, size, duration_seconds) ==
    LET upd == [row EXCEPT !.total_size = @ + size,
                           !.duration_seconds = @ + duration_seconds]
    IN IF USE_POSTGRES THEN books_search_vector_trigger(upd) ELSE upd

\* first statement: INSERT INTO book_parts.  The connection opens its
\* transaction here; nothing is committed.
AbpInsertAutocommit(p, book_id, size, duration_seconds) ==
    /\ pc[p] = "idle"
    /\ Grantable(WriteLocks(p, "books", {book_id}, "KEY SHARE"))
    /\ ~ForeignKeysEnforced \/ RowsById(books, book_id) # {}
    /\ book_parts' = book_parts \cup
            {[id |-> seq.book_parts + 1, book_id |-> book_id, size |-> size,
              duration_seconds |-> duration_seconds]}
    /\ seq' = [seq EXCEPT !.book_parts = @ + 1]
    /\ locks' = locks \cup WriteLocks(p, "books", {book_id}, "KEY SHARE")
    /\ pc' = [pc EXCEPT ![p] = "abp_update"]
    /\ call' = [call EXCEPT ![p] = [op |-> "add_book_part", book_id |-> book_id,
                    size |-> size, duration_seconds |-> duration_seconds]]
    /\ UNCHANGED <<config, shell, now, users, categories, books, saved_books, books_fts, tx, ret>>

AbpInsert(p, book_id, size, duration_seconds) ==
    /\ pc[p] = "idle"
    /\ LET wanted == WriteLocks(p, "books", {book_id}, "KEY SHARE")
           fk_ok == ~ForeignKeysEnforced \/ RowsById(books, book_id) # {}
           id == seq.book_parts + 1
       IN /\ Grantable(wanted)
          /\ seq' = IF USE_POSTGRES THEN [seq EXCEPT !.book_parts = id] ELSE seq
          /\ IF fk_ok
             THEN /\ locks' = locks \cup wanted
                  /\ tx' = [tx EXCEPT ![p].parts =
                              {[id |-> id, book_id |-> book_id, size |-> size,
                                duration_seconds |-> duration_seconds]}]
                  /\ pc' = [pc EXCEPT ![p] = "abp_update"]
                  /\ call' = [call EXCEPT ![p] =
                                [op |-> "add_book_part", book_id |-> book_id,
                                 size |-> size, duration_seconds |-> duration_seconds]]
                  /\ UNCHANGED ret
             ELSE /\ ret' = Raised("add_book_part", "insert")
                  /\ UNCHANGED <<locks, tx, pc, call>>
    /\ UNCHANGED <<config, shell, now, users, categories, books, book_parts, saved_books, books_fts>>

\* second statement: the UPDATE of the parent row, in the same transaction
AbpUpdate(p) ==
    /\ pc[p] = "abp_update"
    /\ LET c == call[p]
           rows == RowsById(books, c.book_id)
           wanted == WriteLocks(p, "books", {r.id : r \in rows}, "NO KEY UPDATE")
       IN /\ Grantable(wanted)
          /\ locks' = locks \cup wanted
          /\ tx' = [tx EXCEPT ![p].books =
                      {AddTotals(r, c.size, c.duration_seconds) : r \in rows}]
    /\ pc' = [pc EXCEPT ![p] = "abp_commit"]
    /\ UNCHANGED <<config, shell, now, users, categories, books, book_parts, saved_books,
                   books_fts, seq, call, ret>>

\* conn.commit(); conn.close()
AbpCommit(p) ==
    /\ pc[p] = "abp_commit"
    /\ book_parts' = CommittedParts(p)
    /\ books' = CommittedBooks(p)
    /\ seq' = CommittedSeq(p)
    /\ locks' = Release(p)
    /\ tx' = [tx EXCEPT ![p] = NoTx]
    /\ pc' = [pc EXCEPT ![p] = "idle"]
    /\ call' = [call EXCEPT ![p] = NoCall]
    /\ ret' = Ok("add_book_part")
    /\ UNCHANGED <<config, shell, now, users, categories, saved_books, books_fts>>

\* A statement or the commit raises (store failure, lock timeout, the caller
\* is cancelled): the function is left without commit, the connection is
\* dropped and its transaction rolled back.
Fail(p) ==
    /\ pc[p] # "idle"
    /\ locks' = Release(p)
    /\ tx' = [tx EXCEPT ![p] = NoTx]
    /\ pc' = [pc EXCEPT ![p] = "idle"]
    /\ call' = [call EXCEPT ![p] = NoCall]
    /\ ret' = Raised(call[p].op, pc[p])
    /\ UNCHANGED <<config, shell, now, users, categories, books, book_parts, saved_books,
                   books_fts, seq>>

\* book ids a caller can hold: ids create_book has returned
KnownBookIds == 1..seq.books

\* a single caller, for the specifications of calls made one after another
Solo == {1}

\* Telegram user ids
UserIds == {1, 2}

\* ------------------------------------------------------------ inc_download
\* UPDATE books SET downloads = COALESCE(downloads,0) + 1: the new value is
\* computed by the engine from the row the statement has locked
IncDownloads(row) ==
    LET upd == [row EXCEPT !.downloads = @ + 1]
    IN IF USE_POSTGRES THEN books_search_vector_trigger(upd) ELSE upd

\* a read-modify-write in place of the single statement: the counter is read
\* without a lock and written back later
IncUpdateReadModifyWrite(p, book_id) ==
    /\ pc[p] = "idle"
    /\ tx' = [tx EXCEPT ![p].books =
                {[r EXCEPT !.downloads = @ + 1] : r \in RowsById(books, book_id)}]
    /\ pc' = [pc EXCEPT ![p] = "inc_commit"]
    /\ call' = [call EXCEPT ![p] = [op |-> "inc_download", book_id |-> book_id]]
    /\ UNCHANGED <<config, shell, now, users, categories, books, book_parts, saved_books,
                   books_fts, seq, locks, ret>>

IncUpdate(p, book_id) ==
    /\ pc[p] = "idle"
    /\ LET rows == RowsById(books, book_id)
           wanted == WriteLocks(p, "books", {r.id : r \in rows}, "NO KEY UPDATE")
       IN /\ Grantable(wanted)
          /\ locks' = locks \cup wanted
          /\ tx' = [tx EXCEPT ![p].books = {IncDownloads(r) : r \in rows}]
    /\ pc' = [pc EXCEPT ![p] = "inc_commit"]
    /\ call' = [call EXCEPT ![p] = [op |-> "inc_download", book_id |-> book_id]]
    /\ UNCHANGED <<config, shell, now, users, categories, books, book_parts, saved_books,
                   books_fts, seq, ret>>

IncCommit(p) ==
    /\ pc[p] = "inc_commit"
    /\ books' = CommittedBooks(p)
    /\ locks' = Release(p)
    /\ tx' = [tx EXCEPT ![p] = NoTx]
    /\ pc' = [pc EXCEPT ![p] = "idle"]
    /\ call' = [call EXCEPT ![p] = NoCall]
    /\ ret' = Ok("inc_download")
    /\ UNCHANGED <<config, shell, now, users, categories, book_parts, saved_books,
                   books_fts, seq>>

\* ------------------- specification: concurrent callers on books and parts
NextParts ==
    \/ \E p \in Procs :
            /\ seq.books < ConcMaxBooks
            /\ create_book(p, <<"a">>, <<"b">>, NULL)
            /\ now' <= ConcMaxClock
    \/ \E p \in Procs : \E b \in KnownBookIds : delete_book(p, b)
    \/ \E p \in Procs : \E b \in KnownBookIds : \E i \in PartInputs :
            /\ seq.book_parts < MaxParts
            /\ AbpInsert(p, b, i.size, i.duration_seconds)
    \/ \E p \in Procs : AbpUpdate(p)
    \/ \E p \in Procs : AbpCommit(p)
    \/ \E p \in Procs : Fail(p)

SpecParts == Init /\ [][NextParts]_vars

\* C1: after any add_book_part calls on a book created by create_book, the
\* committed book row's total_size is the sum of the sizes of its part rows
\* and its duration_seconds the sum of their durations.
C1_AggregatesAreSums ==
    \A b \in books :
        /\ b.total_size = SumSize(PartsOf(b.id))
        /\ b.duration_seconds = SumDuration(PartsOf(b.id))

\* two parts with different sizes and durations are attached to one book
C1_Witness ==
    \E b \in books :
        /\ Cardinality(PartsOf(b.id)) >= 2
        /\ b.total_size = 3
        /\ b.duration_seconds = 3

\* C2: add_book_part is one transaction.  No step changes the committed part
\* rows of a book without changing the book's aggregates by the same amounts
\* in the same step, and a call that raises leaves the committed tables as
\* they were.
C2_InsertAndIncrementAtomic ==
    [][/\ \A b \in books : \A b2 \in books' :
            b2.id = b.id =>
              /\ SumSize(PartsOf(b.id))' - SumSize(PartsOf(b.id))
                    = b2.total_size - b.total_size
              /\ SumDuration(PartsOf(b.id))' - SumDuration(PartsOf(b.id))
                    = b2.duration_seconds - b.duration_seconds
       /\ \A p \in Procs :
            (pc[p] # "idle" /\ pc'[p] = "idle" /\ ret'.status = "error")
                => (book_parts' = book_parts /\ books' = books)
      ]_vars

\* a call failed between its INSERT and its UPDATE while the other caller has
\* a part committed on a book, and an add_book_part of the other is open
C2_Witness ==
    \E p \in Procs : \E q \in Procs :
        /\ p # q
        /\ pc[p] = "idle"
        /\ ret = Raised("add_book_part", "abp_update")
        /\ pc[q] = "abp_commit"
        /\ \E b \in books : PartsOf(b.id) # {}

\* ------------------------------------------ specification: download counter
NextDownloads ==
    \/ \E p \in Procs :
            /\ seq.books < DlMaxBooks
            /\ create_book(p, <<"a">>, <<"b">>, NULL)
            /\ now' <= ConcMaxClock
    \/ \E p \in Procs : \E b \in KnownBookIds : delete_book(p, b)
    \/ \E p \in Procs : \E b \in KnownBookIds :
            /\ \A r \in RowsById(books, b) : r.downloads < MaxDownloads
            /\ IncUpdate(p, b)
    \/ \E p \in Procs : IncCommit(p)
    \/ \E p \in Procs : Fail(p)

SpecDownloads == Init /\ [][NextDownloads]_vars

\* the callers whose inc_download on book_id commits in this step
IncCommitting(book_id) ==
    {p \in Procs : /\ pc[p] = "inc_commit"
                   /\ call[p].book_id = book_id
                   /\ pc'[p] = "idle"
                   /\ ret' = Ok("inc_download")}

\* C3: no increment is lost.  In every step the committed downloads counter
\* of a book grows by exactly the number of inc_download calls on that book
\* that commit in the step (one or none), whatever the other callers are
\* doing; hence N calls that complete leave it exactly N higher.
C3_NoLostIncrement ==
    [][\A b \in books : \A b2 \in books' :
            b2.id = b.id =>
                b2.downloads - b.downloads = Cardinality(IncCommitting(b.id))
      ]_vars

\* a second increment of a book has committed while another inc_download on
\* the same book is between its UPDATE and its commit
C3_Witness ==
    \E b \in books : \E p \in Procs :
        /\ b.downloads >= 1
        /\ ret = Ok("inc_download")
        /\ pc[p] = "inc_commit"
        /\ call[p].book_id = b.id

\* ------------------------------------------------------------ saved books
\* add_saved_book: ensure_saved_books_table (the table exists: no effect),
\* then INSERT OR IGNORE / INSERT ... ON CONFLICT DO NOTHING, and commit.
\* PRIMARY KEY(user_id, book_id): a row with the same pair makes the insert
\* a no-op.
SavedRow(user_id, book_id, t) ==
    [user_id |-> user_id, book_id |-> book_id, created_at |-> t]

\* INSERT OR REPLACE in place of INSERT OR IGNORE
InsertSavedReplace(rows, row) ==
    {r \in rows : ~(r.user_id = row.user_id /\ r.book_id = row.book_id)} \cup {row}

InsertSaved(rows, row) ==
    IF \E r \in rows : r.user_id = row.user_id /\ r.book_id = row.book_id
    THEN rows
    ELSE rows \cup {row}

add_saved_book(p, user_id, book_id) ==
    /\ pc[p] = "idle"
    /\ Grantable(WriteLocks(p, "books", {book_id}, "KEY SHARE"))
    /\ \E t \in Timestamps :
        /\ now' = t
        /\ IF ForeignKeysEnforced /\ RowsById(books, book_id) = {}
           THEN /\ UNCHANGED saved_books
                /\ ret' = [op |-> "add_saved_book", status |-> "error", at |-> "insert",
                           user_id |-> user_id, book_id |-> book_id]
           ELSE /\ saved_books' = InsertSaved(saved_books, SavedRow(user_id, book_id, t))
                /\ ret' = [op |-> "add_saved_book", status |-> "ok",
                           user_id |-> user_id, book_id |-> book_id]
    /\ UNCHANGED <<config, shell, users, categories, books, book_parts, books_fts, seq,
                   locks, procvars>>

\* remove_saved_book: one DELETE and commit
remove_saved_book(p, user_id, book_id) ==
    /\ pc[p] = "idle"
    /\ Grantable(WriteLocks(p, "saved_books", {}, "UPDATE"))
    /\ saved_books' = {r \in saved_books : ~(r.user_id = user_id /\ r.book_id = book_id)}
    /\ ret' = [op |-> "remove_saved_book", status |-> "ok",
               user_id |-> user_id, book_id |-> book_id]
    /\ UNCHANGED <<config, shell, now, users, categories, books, book_parts, books_fts, seq,
                   locks, procvars>>

\* is_book_saved: SELECT 1 FROM saved_books WHERE user_id=? AND book_id=?
is_book_saved(user_id, book_id) ==
    \E r \in saved_books : r.user_id = user_id /\ r.book_id = book_id

\* list_book_parts: the part rows of the book (their order by part_index is
\* not modelled)
list_book_parts(book_id) == PartsOf(book_id)

\* ----------------------------------------------- specification: saved books
NextSaved ==
    \/ \E p \in Solo :
            /\ seq.books < SavedMaxBooks
            /\ create_book(p, <<"a">>, <<"b">>, NULL)
            /\ now' <= SavedMaxClock
    \/ \E p \in Solo : \E b \in KnownBookIds : delete_book(p, b)
    \/ \E p \in Solo : \E u \in UserIds : \E b \in KnownBookIds :
            /\ add_saved_book(p, u, b)
            /\ now' <= SavedMaxClock
    \/ \E p \in Solo : \E u \in UserIds : \E b \in KnownBookIds :
            remove_saved_book(p, u, b)

SpecSaved == Init /\ [][NextSaved]_vars

\* ------------------------- specification: deleting a book with dependants
NextCascade ==
    \/ NextSaved
    \/ \E p \in Solo : \E b \in KnownBookIds : \E i \in PartInputs :
            /\ seq.book_parts < SavedMaxParts
            /\ AbpInsert(p, b, i.size, i.duration_seconds)
    \/ \E p \in Solo : AbpUpdate(p)
    \/ \E p \in Solo : AbpCommit(p)
    \/ \E p \in Solo : Fail(p)

SpecCascade == Init /\ [][NextCascade]_vars

\* C4: add_saved_book is an idempotent save.  A call for a pair (user, book)
\* that already has a row raises no error and leaves the table, and so the
\* row of the first call, as it was; and no call leaves two rows for a pair.
C4_SaveIsIdempotent ==
    [][\A p \in Procs : \A u \in UserIds : \A b \in KnownBookIds :
            add_saved_book(p, u, b) =>
                /\ is_book_saved(u, b) => (saved_books' = saved_books /\ ret'.status = "ok")
                /\ \A r1 \in saved_books' : \A r2 \in saved_books' :
                        (r1.user_id = r2.user_id /\ r1.book_id = r2.book_id) => r1 = r2
      ]_vars

\* the call that finished last is a repeated save: the pair's row is older
\* than the instant that call read
C4_Witness ==
    /\ ret.op = "add_saved_book"
    /\ ret.status = "ok"
    /\ \E r \in saved_books :
            /\ r.user_id = ret.user_id
            /\ r.book_id = ret.book_id
            /\ r.created_at < now

\* C7: after delete_book(b) no book_parts row and no saved_books row
\* references b: list_book_parts(b) is empty and is_book_saved(u, b) is false
\* for every user u.
C7_DeleteBookCascades ==
    [][\A p \in Procs : \A b \in KnownBookIds :
            delete_book(p, b) =>
                /\ list_book_parts(b)' = {}
                /\ \A u \in UserIds : ~is_book_saved(u, b)'
      ]_vars

\* ------------------------------------------------------------------- users
\* names a user can carry: (username, first_name)
UserNames == {<<"x", "X">>, <<"y", "Y">>}

UsersById(rows, user_id) == {r \in rows : r.user_id = user_id}

\* INSERT INTO users(user_id, username, first_name, joined_at): is_blocked
\* takes its DEFAULT 0
NewUser(user_id, username, first_name, t) ==
    [user_id |-> user_id, username |-> username, first_name |-> first_name,
     joined_at |-> t, is_blocked |-> 0]

\* an upsert written as a replacement of the row
ReplaceUserNames(row, username, first_name) ==
    NewUser(row.user_id, username, first_name, row.joined_at)

\* UPDATE users SET username=?, first_name=? WHERE user_id=?
UpdateUserNames(row, username, first_name) ==
    [row EXCEPT !.username = username, !.first_name = first_name]

\* upsert_user, first statement: SELECT user_id FROM users WHERE user_id=?
UuSelect(p, user_id, username, first_name) ==
    /\ pc[p] = "idle"
    /\ pc' = [pc EXCEPT ![p] = "uu_write"]
    /\ call' = [call EXCEPT ![p] =
                  [op |-> "upsert_user", user_id |-> user_id, username |-> username,
                   first_name |-> first_name,
                   exists |-> UsersById(users, user_id) # {}]]
    /\ UNCHANGED <<config, shell, now, users, categories, books, book_parts, saved_books,
                   books_fts, seq, locks, tx, ret>>

\* second statement: UPDATE if the SELECT found the row, INSERT otherwise.
\* user_id is the PRIMARY KEY: an INSERT of an id that has a row raises.
UuWrite(p) ==
    /\ pc[p] = "uu_write"
    /\ LET c == call[p]
           rows == UsersById(users, c.user_id)
       IN IF c.exists
          THEN LET wanted == WriteLocks(p, "users", {c.user_id}, "NO KEY UPDATE")
               IN /\ Grantable(wanted)
                  /\ locks' = locks \cup wanted
                  /\ tx' = [tx EXCEPT ![p].users =
                              {UpdateUserNames(r, c.username, c.first_name) : r \in rows}]
                  /\ pc' = [pc EXCEPT ![p] = "uu_commit"]
                  /\ UNCHANGED <<now, call, ret>>
          ELSE LET wanted == WriteLocks(p, "users", {c.user_id}, "UPDATE")
               IN /\ Grantable(wanted)
                  /\ \E t \in Timestamps :
                        /\ now' = t
                        /\ IF rows = {}
                           THEN /\ locks' = locks \cup wanted
                                /\ tx' = [tx EXCEPT ![p].users =
                                            {NewUser(c.user_id, c.username, c.first_name, t)}]
                                /\ pc' = [pc EXCEPT ![p] = "uu_commit"]
                                /\ UNCHANGED <<call, ret>>
                           ELSE /\ locks' = Release(p)
                                /\ tx' = [tx EXCEPT ![p] = NoTx]
                                /\ pc' = [pc EXCEPT ![p] = "idle"]
                                /\ call' = [call EXCEPT ![p] = NoCall]
                                /\ ret' = [op |-> "upsert_user", status |-> "error",
                                           at |-> "IntegrityError", user_id |-> c.user_id]
    /\ UNCHANGED <<config, shell, users, categories, books, book_parts, saved_books,
                   books_fts, seq>>

\* conn.commit(); conn.close()
UuCommit(p) ==
    /\ pc[p] = "uu_commit"
    /\ users' = CommittedUsers(p)
    /\ locks' = Release(p)
    /\ tx' = [tx EXCEPT ![p] = NoTx]
    /\ pc' = [pc EXCEPT ![p] = "idle"]
    /\ call' = [call EXCEPT ![p] = NoCall]
    /\ ret' = [op |-> "upsert_user", status |-> "ok", user_id |-> call[p].user_id,
               username |-> call[p].username]
    /\ UNCHANGED <<config, shell, now, categories, books, book_parts, saved_books,
                   books_fts, seq>>

\* set_block: one UPDATE and commit
set_block(p, user_id, blocked) ==
    /\ pc[p] = "idle"
    /\ Grantable(WriteLocks(p, "users", {user_id}, "NO KEY UPDATE"))
    /\ users' = {IF r.user_id = user_id
                 THEN [r EXCEPT !.is_blocked = IF blocked THEN 1 ELSE 0]
                 ELSE r : r \in users}
    /\ ret' = [op |-> "set_block", status |-> "ok", user_id |-> user_id]
    /\ UNCHANGED <<config, shell, now, categories, books, book_parts, saved_books,
                   books_fts, seq, locks, procvars>>

\* ----------------------------------------------------- specification: users
NextUsers ==
    \/ \E p \in Solo : \E u \in UserIds : \E n \in UserNames :
            UuSelect(p, u, n[1], n[2])
    \/ \E p \in Solo : UuWrite(p) /\ now' <= UsersMaxClock
    \/ \E p \in Solo : UuCommit(p)
    \/ \E p \in Solo : \E u \in UserIds : \E blocked \in BOOLEAN :
            set_block(p, u, blocked)
    \/ \E p \in Solo : Fail(p)

SpecUsers == Init /\ [][NextUsers]_vars

\* C5: upsert_user is idempotent.  When a call for a user id commits there
\* is exactly one row for that id; if the id had a row, the call changed its
\* username and first_name to the call's arguments and nothing else:
\* joined_at and is_blocked are as they were, and so is every other row.
C5_UpsertUpdatesNamesOnly ==
    [][\A p \in Procs :
            UuCommit(p) =>
                /\ Cardinality(UsersById(users', call[p].user_id)) = 1
                /\ \A old \in UsersById(users, call[p].user_id) :
                      users' = (users \ {old}) \cup
                               {[old EXCEPT !.username = call[p].username,
                                            !.first_name = call[p].first_name]}
      ]_vars

\* an upsert has committed for a user who was blocked before it: a repeated
\* call, whose names are the row's names and whose row is still blocked
C5_Witness ==
    /\ ret.op = "upsert_user"
    /\ ret.status = "ok"
    /\ \E r \in users :
            /\ r.user_id = ret.user_id
            /\ r.username = ret.username
            /\ r.is_blocked = 1

\* -------------------------------------------------------------- categories
CategoryNames == {"n1", "n2"}

KnownCategoryIds == 1..seq.categories

\* add_category: INSERT OR IGNORE / INSERT ... ON CONFLICT DO NOTHING and
\* commit; name is UNIQUE.  A SERIAL id is drawn before the conflict is seen.
add_category(p, name) ==
    /\ pc[p] = "idle"
    /\ Grantable(WriteLocks(p, "categories", {}, "UPDATE"))
    /\ LET id == seq.categories + 1
           taken == \E c \in categories : c.name = name
       IN /\ categories' = IF taken THEN categories
                           ELSE categories \cup {[id |-> id, name |-> name]}
          /\ seq' = IF taken /\ ~USE_POSTGRES THEN seq
                    ELSE [seq EXCEPT !.categories = id]
    /\ ret' = [op |-> "add_category", status |-> "ok"]
    /\ UNCHANGED <<config, shell, now, users, books, book_parts, saved_books, books_fts,
                   locks, procvars>>

\* ON DELETE SET NULL of books.category_id
SetNullOnCategoryDelete(rows, cat_id) ==
    IF ForeignKeysEnforced
    THEN {IF r.category_id = cat_id
          THEN books_search_vector_trigger([r EXCEPT !.category_id = NULL])
          ELSE r : r \in rows}
    ELSE rows

\* delete_category: one DELETE and commit
delete_category(p, cat_id) ==
    /\ pc[p] = "idle"
    /\ LET rows == RowsById(categories, cat_id)
           refs == {b.id : b \in {r \in books : r.category_id = cat_id}}
       IN /\ Grantable(WriteLocks(p, "books", refs, "NO KEY UPDATE"))
          /\ categories' = categories \ rows
          /\ books' = IF rows = {} THEN books
                      ELSE SetNullOnCategoryDelete(books, cat_id)
    /\ ret' = [op |-> "delete_category", status |-> "ok", cat_id |-> cat_id]
    /\ UNCHANGED <<config, shell, now, users, book_parts, saved_books, books_fts, seq,
                   locks, procvars>>

\* ------------------------------------------------ specification: categories
NextCategories ==
    \/ \E p \in Solo : \E n \in CategoryNames :
            /\ seq.categories < CatMaxCategories
            /\ add_category(p, n)
    \/ \E p \in Solo : \E c \in KnownCategoryIds : delete_category(p, c)
    \/ \E p \in Solo : \E c \in {NULL} \cup KnownCategoryIds :
            /\ seq.books < CatMaxBooks
            /\ create_book(p, <<"a">>, <<"b">>, c)
            /\ now' <= CatMaxClock
    \/ \E p \in Solo : \E b \in KnownBookIds : delete_book(p, b)

SpecCategories == Init /\ [][NextCategories]_vars

\* C6: after delete_category(c) on a category that books refer to, every
\* such book still exists with category_id null; no error is raised and no
\* book is deleted.
C6_DeleteCategorySetsNull ==
    [][\A p \in Procs : \A c \in KnownCategoryIds :
            (delete_category(p, c) /\ RowsById(categories, c) # {}) =>
                /\ ret'.status = "ok"
                /\ books' = {IF b.category_id = c THEN [b EXCEPT !.category_id = NULL]
                             ELSE b : b \in books}
      ]_vars

\* ------------------------------------------------------------------ search
\* titles, the author and the queries of the specification of search
Titles == {<<"a", "b">>, <<"b">>, <<"U+0414">>}
Authors == {<<"b">>}
Queries == {<<"a">>, <<"B">>, <<"a", "b", " ", "b">>, <<"U+0414">>, <<"%">>}
Limits == {1, 3}

Min(a, b) == IF a <= b THEN a ELSE b
Range(s) == {s[i] : i \in DOMAIN s}

\* update_book_meta: an UPDATE for each argument that is not None, then one
\* commit.  An argument is a sequence: empty for None, else of the value.
\* On Postgres every UPDATE passes the search_vector trigger, and a
\* category_id without a row raises, which leaves nothing committed.  On
\* SQLite trigger books_au adds the new text to books_fts after each UPDATE
\* of title or author.
SetTitle(row, title_opt) ==
    IF title_opt = <<>> THEN row
    ELSE LET upd == [row EXCEPT !.title = title_opt[1]]
         IN IF USE_POSTGRES THEN books_search_vector_trigger(upd) ELSE upd

SetAuthor(row, author_opt) ==
    IF author_opt = <<>> THEN row
    ELSE LET upd == [row EXCEPT !.author = author_opt[1]]
         IN IF USE_POSTGRES THEN books_search_vector_trigger(upd) ELSE upd

SetCategory(row, category_opt) ==
    IF category_opt = <<>> THEN row
    ELSE LET upd == [row EXCEPT !.category_id = category_opt[1]]
         IN IF USE_POSTGRES THEN books_search_vector_trigger(upd) ELSE upd

update_book_meta(p, book_id, title_opt, author_opt, category_opt) ==
    /\ pc[p] = "idle"
    /\ LET rows == RowsById(books, book_id)
           fk_ok == \/ ~ForeignKeysEnforced
                    \/ rows = {}
                    \/ category_opt = <<>>
                    \/ category_opt[1] = NULL
                    \/ RowsById(categories, category_opt[1]) # {}
       IN /\ Grantable(WriteLocks(p, "books", {r.id : r \in rows}, "NO KEY UPDATE"))
          /\ IF fk_ok
             THEN /\ books' = (books \ rows) \cup
                        {SetCategory(SetAuthor(SetTitle(r, title_opt), author_opt),
                                     category_opt) : r \in rows}
                  /\ books_fts' =
                        LET titled == {SetTitle(r, title_opt) : r \in rows}
                            fts1 == IF title_opt = <<>> THEN books_fts
                                    ELSE UNION ({books_fts} \cup
                                                {FtsInsert(books_fts, r) : r \in titled})
                        IN IF author_opt = <<>> THEN fts1
                           ELSE UNION ({fts1} \cup
                                       {FtsInsert(fts1, SetAuthor(r, author_opt)) :
                                            r \in titled})
                  /\ ret' = Ok("update_book_meta")
             ELSE /\ UNCHANGED <<books, books_fts>>
                  /\ ret' = Raised("update_book_meta", "update category_id")
    /\ UNCHANGED <<config, shell, now, users, categories, book_parts, saved_books, seq,
                   locks, procvars>>

\* plainto_tsquery('simple', query): the words of the query, all required;
\* a query without a word matches nothing
FullTextMatch(search_vector, query) ==
    /\ Tokenize(query) # <<>>
    /\ Range(Tokenize(query)) \subseteq Range(search_vector)

\* ts_rank_cd(search_vector, plainto_tsquery(...)): 0.1 for each occurrence
\* of the word of a one-word query; here the number of occurrences of the
\* words of the query
Rank(search_vector, query) ==
    Cardinality({i \in DOMAIN search_vector :
                    search_vector[i] \in Range(Tokenize(query))})

\* q = f"%{query.lower()}%"
LikePattern(query) == <<"%">> \o [i \in DOMAIN query |-> PyLower(query[i])] \o <<"%">>

\* text LIKE pattern (SQLite): "%" in the pattern stands for any run of
\* characters; letters compare equal when their ASCII folds are equal
RECURSIVE Like(_, _)
Like(text, pattern) ==
    IF pattern = <<>> THEN text = <<>>
    ELSE IF Head(pattern) = "%"
         THEN \/ Like(text, Tail(pattern))
              \/ text # <<>> /\ Like(Tail(text), pattern)
         ELSE /\ text # <<>>
              /\ SqliteLower(Head(text)) = SqliteLower(Head(pattern))
              /\ Like(Tail(text), Tail(pattern))

\* lower(title) LIKE ? OR lower(author) LIKE ?
FallbackMatch(row, query) ==
    \/ Like([i \in DOMAIN row.title |-> SqliteLower(row.title[i])], LikePattern(query))
    \/ Like([i \in DOMAIN row.author |-> SqliteLower(row.author[i])], LikePattern(query))

\* ORDER BY rank DESC, downloads DESC, created_at DESC: row a may come
\* before row b
Before(a, b, rank) ==
    \/ rank[a.id] > rank[b.id]
    \/ rank[a.id] = rank[b.id] /\ a.downloads > b.downloads
    \/ rank[a.id] = rank[b.id] /\ a.downloads = b.downloads
                               /\ a.created_at >= b.created_at

\* the orders the engine may return the rows in: rows equal in every key of
\* the ORDER BY come in any order
OrderBy(rows, rank) ==
    {s \in [1..Cardinality(rows) -> rows] :
        \A i \in DOMAIN s : \A j \in DOMAIN s :
            i < j => (s[i] # s[j] /\ Before(s[i], s[j], rank))}

\* LIMIT ?
Limit(s, limit) == SubSeq(s, 1, Min(limit, Len(s)))

\* SELECT id, title, author, type, COALESCE(downloads,0) AS downloads
Select(s) ==
    [i \in DOMAIN s |-> [id |-> s[i].id, title |-> s[i].title,
                         author |-> s[i].author, downloads |-> s[i].downloads]]

\* the Postgres branch of search_books
FullTextRows(query, limit) ==
    LET found == {b \in books : FullTextMatch(b.search_vector, query)}
        rank == [id \in {b.id : b \in found} |->
                    Rank((CHOOSE b \in found : b.id = id).search_vector, query)]
    IN {Select(Limit(s, limit)) : s \in OrderBy(found, rank)}

\* the except branch of search_books (SQLite)
FallbackRows(query, limit) ==
    LET found == {b \in books : FallbackMatch(b, query)}
        rank == [id \in {b.id : b \in found} |-> 0]
    IN {Select(Limit(s, limit)) : s \in OrderBy(found, rank)}

\* search_books.  On SQLite the statement in the try block is rejected when
\* it is prepared: books_fts does not exist, or, when it exists, bm25(f)
\* names the alias f, which is not a column ("no such column: f").  The bare
\* except takes every call to the LIKE statement.
search_books(p, query, limit) ==
    /\ pc[p] = "idle"
    /\ \E rows \in (IF USE_POSTGRES THEN FullTextRows(query, limit)
                                    ELSE FallbackRows(query, limit)) :
            ret' = [op |-> "search_books", status |-> "ok", query |-> query,
                    limit |-> limit, rows |-> rows]
    /\ UNCHANGED <<config, shell, now, users, categories, books, book_parts, saved_books,
                   books_fts, seq, locks, procvars>>

\* ---------------------------------------------------- specification: search
NextSearch ==
    \/ \E p \in Solo : \E t \in Titles : \E a \in Authors :
            /\ seq.books < SearchMaxBooks
            /\ create_book(p, t, a, NULL)
            /\ now' <= SearchMaxClock
    \/ \E p \in Solo : \E b \in KnownBookIds : \E t \in Titles : \E a \in Authors :
       \E title_opt \in {<<>>, <<t>>} : \E author_opt \in {<<>>, <<a>>} :
            update_book_meta(p, b, title_opt, author_opt, <<>>)
    \/ \E p \in Solo : \E b \in KnownBookIds : delete_book(p, b)
    \/ \E p \in Solo : \E b \in KnownBookIds :
            /\ \A r \in RowsById(books, b) : r.downloads < SearchMaxDownloads
            /\ IncUpdate(p, b)
    \/ \E p \in Solo : IncCommit(p)
    \/ \E p \in Solo : Fail(p)
    \/ \E p \in Solo : \E q \in Queries : \E l \in Limits : search_books(p, q, l)

SpecSearch == Init /\ [][NextSearch]_vars

\* the words of the query all occur among the words of the row's title and
\* author
TokenMatch(row, query) ==
    /\ Tokenize(query) # <<>>
    /\ Range(Tokenize(query)) \subseteq Range(Document(row.title, row.author))

Fold(s) == [i \in DOMAIN s |-> PyLower(s[i])]

Contains(text, part) ==
    \E i \in 0..(Len(text) - Len(part)) : SubSeq(text, i + 1, i + Len(part)) = part

\* the query occurs in the row's title or author, letter case apart
SubstringMatch(row, query) ==
    \/ Contains(Fold(row.title), Fold(query))
    \/ Contains(Fold(row.author), Fold(query))

BookOf(selected) == CHOOSE b \in books : b.id = selected.id

\* C8: the search index is never stale.  After any create_book,
\* update_book_meta and delete_book, search_books returns a book exactly when
\* the words of the query are words of its current title and author (as many
\* of these books as the limit allows): not for a word of an old title only,
\* and never a deleted book.
C8_SearchMatchesCurrentTokens ==
    [][\A p \in Procs : \A q \in Queries : \A l \in Limits :
            search_books(p, q, l) =>
                /\ \A r \in Range(ret'.rows) :
                        \E b \in books : b.id = r.id /\ TokenMatch(b, q)
                /\ Len(ret'.rows) =
                        Min(l, Cardinality({b \in books : TokenMatch(b, q)}))
      ]_vars

\* C9: search_books with a query that matches no book (by its words on the
\* full-text path, as a substring on the fallback path) raises nothing and
\* returns the empty list.
C9_NoMatchReturnsEmpty ==
    [][\A p \in Procs : \A q \in Queries : \A l \in Limits :
            search_books(p, q, l) =>
                /\ ret'.status = "ok"
                /\ (\A b \in books : IF USE_POSTGRES THEN ~TokenMatch(b, q)
                                                     ELSE ~SubstringMatch(b, q))
                        => ret'.rows = <<>>
      ]_vars

\* C10: search_books returns at most limit rows, ordered by rank descending,
\* then downloads descending, then created_at descending; and where the
\* full-text statement cannot be run (SQLite) the rows are the books that
\* have the query as a substring of title or author, letter case apart, as
\* many as the limit allows.
C10_SearchOrderedAndLimited ==
    [][\A p \in Procs : \A q \in Queries : \A l \in Limits :
            search_books(p, q, l) =>
                LET rows == ret'.rows
                    rank == [id \in {b.id : b \in books} |->
                                IF USE_POSTGRES
                                THEN LET b == CHOOSE x \in books : x.id = id
                                     IN Rank(Document(b.title, b.author), q)
                                ELSE 0]
                IN /\ Len(rows) <= l
                   /\ \A i \in DOMAIN rows : \A j \in DOMAIN rows :
                        i < j => Before(BookOf(rows[i]), BookOf(rows[j]), rank)
                   /\ ~USE_POSTGRES =>
                        /\ \A r \in Range(rows) : SubstringMatch(BookOf(r), q)
                        /\ Len(rows) =
                             Min(l, Cardinality({b \in books : SubstringMatch(b, q)}))
      ]_vars

\* --------------------------------------------------------- missing queries
\* texts of queries that found nothing
MissingTexts == {<<"a">>, <<"A">>, <<"b">>}

\* save_missing_query: one INSERT and commit
save_missing_query(p, user_id, query) ==
    /\ pc[p] = "idle"
    /\ Grantable(WriteLocks(p, "missing_queries", {}, "UPDATE"))
    /\ \E t \in Timestamps :
        /\ now' = t
        /\ missing_queries' = Append(missing_queries,
                [user_id |-> user_id, query |-> query, created_at |-> t])
    /\ ret' = Ok("save_missing_query")
    /\ UNCHANGED <<config, wishes, catalog, boot, mw, users, categories, books, book_parts, saved_books,
                   books_fts, seq, locks, procvars>>

\* clear_missing_queries: DELETE FROM missing_queries and commit
clear_missing_queries(p) ==
    /\ pc[p] = "idle"
    /\ Grantable(WriteLocks(p, "missing_queries", {}, "UPDATE"))
    /\ missing_queries' = <<>>
    /\ ret' = Ok("clear_missing_queries")
    /\ UNCHANGED <<config, wishes, catalog, boot, mw, now, users, categories, books, book_parts,
                   saved_books, books_fts, seq, locks, procvars>>

\* GROUP BY with the column's text read through a case fold
GroupKeyFolded(text) == [i \in DOMAIN text |-> PyLower(text[i])]

\* GROUP BY query / GROUP BY text: rows are in one group when the column
\* compares equal under the column's collation (BINARY on SQLite, the
\* deterministic default collation on Postgres): the same characters
GroupKey(text) == text

\* MAX(created_at)
MaxOf(S) == CHOOSE t \in S : \A u \in S : t >= u

\* SELECT query, COUNT(*) AS cnt, MAX(created_at) AS last_at ... GROUP BY query
MissingGroups ==
    {[query |-> missing_queries[k].query,
      cnt |-> Cardinality({i \in DOMAIN missing_queries :
                 GroupKey(missing_queries[i].query) = GroupKey(missing_queries[k].query)}),
      last_at |-> MaxOf({missing_queries[i].created_at : i \in
                 {j \in DOMAIN missing_queries :
                     GroupKey(missing_queries[j].query) = GroupKey(missing_queries[k].query)}})]
        : k \in {i \in DOMAIN missing_queries :
                    \A j \in DOMAIN missing_queries :
                        GroupKey(missing_queries[j].query) = GroupKey(missing_queries[i].query)
                            => i <= j}}

\* ORDER BY cnt DESC, last_at DESC: group a may come before group b
BeforeAgg(a, b) ==
    \/ a.cnt > b.cnt
    \/ a.cnt = b.cnt /\ a.last_at >= b.last_at

OrderByAgg(groups) ==
    {s \in [1..Cardinality(groups) -> groups] :
        \A i \in DOMAIN s : \A j \in DOMAIN s :
            i < j => (s[i] # s[j] /\ BeforeAgg(s[i], s[j]))}

\* list_missing_queries_agg: one SELECT
list_missing_queries_agg(p, limit) ==
    /\ pc[p] = "idle"
    /\ \E s \in OrderByAgg(MissingGroups) :
            ret' = [op |-> "list_missing_queries_agg", status |-> "ok",
                    limit |-> limit, rows |-> Limit(s, limit)]
    /\ UNCHANGED <<config, shell, now, users, categories, books, book_parts,
                   saved_books, books_fts, seq, locks, procvars>>

\* ------------------------------------------- specification: missing queries
NextMissing ==
    \/ \E p \in Solo : \E q \in MissingTexts :
            /\ Len(missing_queries) < MqMaxRows
            /\ save_missing_query(p, 1, q)
            /\ now' <= MqMaxClock
    \/ \E p \in Solo : clear_missing_queries(p)
    \/ \E p \in Solo : \E l \in Limits : list_missing_queries_agg(p, l)

SpecMissing == Init /\ [][NextMissing]_vars

\* the logged rows whose query is exactly the given text
RowsWithQuery(text) == {i \in DOMAIN missing_queries : missing_queries[i].query = text}

\* C11: list_missing_queries_agg has one group for each distinct query text,
\* letter case included; a group carries the number of its rows and the
\* latest created_at among them; groups come by count descending, then by
\* latest created_at descending, as many as the limit allows.
C11_MissingGroupedExactly ==
    [][\A p \in Procs : \A l \in Limits :
            list_missing_queries_agg(p, l) =>
                LET rows == ret'.rows
                IN /\ \A i \in DOMAIN rows :
                        /\ RowsWithQuery(rows[i].query) # {}
                        /\ rows[i].cnt = Cardinality(RowsWithQuery(rows[i].query))
                        /\ \E k \in RowsWithQuery(rows[i].query) :
                                rows[i].last_at = missing_queries[k].created_at
                        /\ \A k \in RowsWithQuery(rows[i].query) :
                                rows[i].last_at >= missing_queries[k].created_at
                   /\ \A i \in DOMAIN rows : \A j \in DOMAIN rows :
                        i < j => /\ rows[i].query # rows[j].query
                                 /\ \/ rows[i].cnt > rows[j].cnt
                                    \/ /\ rows[i].cnt = rows[j].cnt
                                       /\ rows[i].last_at >= rows[j].last_at
                   /\ Len(rows) = Min(l, Cardinality({missing_queries[i].query :
                                                        i \in DOMAIN missing_queries}))
      ]_vars

\* the listing that finished last shows a text and the same text in another
\* letter case as two groups, one of them of two rows
C11_Witness ==
    /\ ret.op = "list_missing_queries_agg"
    /\ \E i \in DOMAIN ret.rows : \E j \in DOMAIN ret.rows :
            /\ ret.rows[i].query = <<"a">>
            /\ ret.rows[j].query = <<"A">>
            /\ ret.rows[i].cnt = 2
            /\ ret.rows[j].cnt = 1

\* ------------------------------------------------------------------ wishes
WishTexts == {<<"a">>, <<"b">>}

\* add_wish: ensure_wishes_table (the table exists: no effect), one INSERT
\* and commit; is_seen takes its DEFAULT 0
add_wish(p, user_id, text) ==
    /\ pc[p] = "idle"
    /\ Grantable(WriteLocks(p, "wishes", {}, "UPDATE"))
    /\ \E t \in Timestamps :
        /\ now' = t
        /\ wishes' = Append(wishes, [user_id |-> user_id, text |-> text,
                                     created_at |-> t, is_seen |-> 0])
    /\ ret' = Ok("add_wish")
    /\ UNCHANGED <<config, missing_queries, catalog, boot, mw, users, categories, books, book_parts,
                   saved_books, books_fts, seq, locks, procvars>>

\* mark_wish_seen: UPDATE wishes SET is_seen=1 WHERE id=? and commit; the id
\* of a row is its place in id order
mark_wish_seen(p, wish_id) ==
    /\ pc[p] = "idle"
    /\ Grantable(WriteLocks(p, "wishes", {wish_id}, "NO KEY UPDATE"))
    /\ wishes' = [i \in DOMAIN wishes |->
                    IF i = wish_id THEN [wishes[i] EXCEPT !.is_seen = 1] ELSE wishes[i]]
    /\ ret' = Ok("mark_wish_seen")
    /\ UNCHANGED <<config, missing_queries, catalog, boot, mw, now, users, categories, books, book_parts,
                   saved_books, books_fts, seq, locks, procvars>>

\* WHERE COALESCE(is_seen,0)=0, when only_unseen
WishesListed(only_unseen) ==
    {i \in DOMAIN wishes : ~only_unseen \/ wishes[i].is_seen = 0}

\* SELECT text, COUNT(*) AS cnt ... GROUP BY text
WishGroups(only_unseen) ==
    {[text |-> wishes[k].text,
      cnt |-> Cardinality({i \in WishesListed(only_unseen) :
                              GroupKey(wishes[i].text) = GroupKey(wishes[k].text)})]
        : k \in WishesListed(only_unseen)}

\* ORDER BY cnt DESC: groups of equal count come in an order the statement
\* does not fix
OrderByCnt(groups) ==
    {s \in [1..Cardinality(groups) -> groups] :
        \A i \in DOMAIN s : \A j \in DOMAIN s :
            i < j => (s[i] # s[j] /\ s[i].cnt >= s[j].cnt)}

\* LIMIT ? OFFSET ?
LimitOffset(s, limit, offset) ==
    SubSeq(s, offset + 1, Min(offset + limit, Len(s)))

\* list_wishes_agg: ensure_wishes_table, then one SELECT
list_wishes_agg(p, limit, offset, only_unseen) ==
    /\ pc[p] = "idle"
    /\ \E s \in OrderByCnt(WishGroups(only_unseen)) :
            ret' = [op |-> "list_wishes_agg", status |-> "ok", limit |-> limit,
                    offset |-> offset, only_unseen |-> only_unseen,
                    rows |-> LimitOffset(s, limit, offset)]
    /\ UNCHANGED <<config, shell, now, users, categories, books, book_parts,
                   saved_books, books_fts, seq, locks, procvars>>

\* ---------------------------------------------------- specification: wishes
NextWishes ==
    \/ \E p \in Solo : \E u \in UserIds : \E w \in WishTexts :
            /\ Len(wishes) < WishMaxRows
            /\ add_wish(p, u, w)
            /\ now' <= WishMaxClock
    \/ \E p \in Solo : \E i \in DOMAIN wishes : mark_wish_seen(p, i)
    \/ \E p \in Solo : \E l \in Limits : \E o \in {0, 1} : \E only_unseen \in BOOLEAN :
            list_wishes_agg(p, l, o, only_unseen)

SpecWishes == Init /\ [][NextWishes]_vars

\* the latest created_at among the listed wishes of a text
LastWish(text, only_unseen) ==
    MaxOf({wishes[i].created_at :
            i \in {j \in WishesListed(only_unseen) : wishes[j].text = text}})

\* C12: list_wishes_agg has one group for each text, with the number of its
\* wishes; groups come by count descending and, among groups of equal count,
\* the one with the more recent wish first.
C12_WishesByCountThenRecent ==
    [][\A p \in Procs : \A l \in Limits : \A o \in {0, 1} : \A only_unseen \in BOOLEAN :
            list_wishes_agg(p, l, o, only_unseen) =>
                LET rows == ret'.rows
                IN /\ \A i \in DOMAIN rows :
                        rows[i].cnt = Cardinality({k \in WishesListed(only_unseen) :
                                                      wishes[k].text = rows[i].text})
                   /\ \A i \in DOMAIN rows : \A j \in DOMAIN rows :
                        i < j =>
                            /\ rows[i].text # rows[j].text
                            /\ \/ rows[i].cnt > rows[j].cnt
                               \/ /\ rows[i].cnt = rows[j].cnt
                                  /\ LastWish(rows[i].text, only_unseen)
                                        >= LastWish(rows[j].text, only_unseen)
      ]_vars

\* ---------------------------------------------------------------- start-up
\* main (src/app.py) calls init_db and then starts polling.  The schema is
\* two objects: "tables" (the tables and their indexes) and "search" (the
\* trigger function and trigger on Postgres; books_fts and its triggers on
\* SQLite).
data == <<now, users, categories, books, book_parts, saved_books, books_fts, seq,
          locks, pc, call, tx, ret, missing_queries, wishes>>

InitPhases == {"tables", "tables_create", "search", "search_create", "commit", "ensure"}

\* the store before the first start, or an initialised store, and no process
\* started
InitBoot ==
    /\ USE_POSTGRES \in BOOLEAN
    /\ \E installed \in BOOLEAN :
        /\ fts5 \in (IF installed /\ ~USE_POSTGRES THEN BOOLEAN ELSE {FALSE})
        /\ catalog = IF installed
                     THEN {"tables"} \cup (IF USE_POSTGRES \/ fts5 THEN {"search"} ELSE {})
                     ELSE {}
    /\ now = 0
    /\ users = {}
    /\ categories = {}
    /\ books = {}
    /\ book_parts = {}
    /\ saved_books = {}
    /\ books_fts = {}
    /\ seq = [categories |-> 0, books |-> 0, book_parts |-> 0]
    /\ locks = {}
    /\ pc = [p \in Procs |-> "idle"]
    /\ call = [p \in Procs |-> NoCall]
    /\ tx = [p \in Procs |-> NoTx]
    /\ ret = NoRet
    /\ missing_queries = <<>>
    /\ wishes = <<>>
    /\ boot = [p \in Procs |-> NotStarted]
    /\ mw = NoUpdates

\* main is entered: db.init_db() is its first call that touches the store
main(p) ==
    /\ boot[p].phase = "off"
    /\ boot' = [boot EXCEPT ![p].phase = "tables"]
    /\ UNCHANGED <<config, catalog, mw, data>>

\* Postgres, CREATE TABLE / INDEX IF NOT EXISTS: the statement looks the name
\* up among the committed objects and its own
InitCheck(p, object, create, skip) ==
    /\ USE_POSTGRES
    /\ boot[p].phase = object
    /\ boot' = [boot EXCEPT ![p].phase =
                    IF object \in catalog \cup boot[p].made THEN skip ELSE create]
    /\ UNCHANGED <<config, catalog, mw, data>>

\* ... and creates the object if it found none.  It waits for a transaction
\* that has created the same name and not committed, and raises "already
\* exists" once that one has committed.
InitCreate(p, object, create, next) ==
    /\ USE_POSTGRES
    /\ boot[p].phase = create
    /\ \A q \in Procs \ {p} : object \notin boot[q].made
    /\ boot' = [boot EXCEPT ![p] =
                    IF object \in catalog
                    THEN [phase |-> "exited", made |-> {}, error |-> "already exists"]
                    ELSE [phase |-> next, made |-> boot[p].made \cup {object},
                          error |-> "none"]]
    /\ UNCHANGED <<config, catalog, mw, data>>

\* SQLite, the CREATE ... IF NOT EXISTS statements of the tables and indexes:
\* each runs under the database lock and is committed as it ends
InitTablesSqlite(p) ==
    /\ ~USE_POSTGRES
    /\ boot[p].phase = "tables"
    /\ catalog' = catalog \cup {"tables"}
    /\ boot' = [boot EXCEPT ![p].phase = "search"]
    /\ UNCHANGED <<config, mw, data>>

\* SQLite, the try block that creates books_fts, its triggers and the
\* backfill: either it runs through, or a statement raises (no FTS5 in the
\* build, a store failure) and "except: pass" goes on.  The backfill adds
\* no entry: its NOT EXISTS reads books_fts through the content table.
InitSearchSqlite(p) ==
    /\ ~USE_POSTGRES
    /\ boot[p].phase = "search"
    /\ \E created \in BOOLEAN :
        /\ catalog' = IF created THEN catalog \cup {"search"} ELSE catalog
        /\ fts5' = (created \/ fts5)
    /\ boot' = [boot EXCEPT ![p].phase = "commit"]
    /\ UNCHANGED <<USE_POSTGRES, mw, data>>

\* conn.commit() of init_db
InitCommit(p) ==
    /\ boot[p].phase = "commit"
    /\ catalog' = catalog \cup boot[p].made
    /\ boot' = [boot EXCEPT ![p] = [phase |-> "ensure", made |-> {}, error |-> "none"]]
    /\ UNCHANGED <<config, mw, data>>

\* ensure_saved_books_table() and ensure_wishes_table(): the tables exist;
\* init_db returns and main goes on to dp.start_polling
InitEnsure(p) ==
    /\ boot[p].phase = "ensure"
    /\ boot' = [boot EXCEPT ![p].phase = "polling"]
    /\ UNCHANGED <<config, catalog, mw, data>>

\* a statement of init_db outside a try block raises: the exception leaves
\* main and the process ends with sys.exit(1)
InitFail(p) ==
    /\ boot[p].phase \in InitPhases
    /\ boot' = [boot EXCEPT ![p] = [phase |-> "exited", made |-> {}, error |-> "store"]]
    /\ UNCHANGED <<config, catalog, mw, data>>

\* -------------------------------------------------- specification: start-up
NextBoot ==
    \/ \E p \in Procs : main(p)
    \/ \E p \in Procs : InitCheck(p, "tables", "tables_create", "search")
    \/ \E p \in Procs : InitCreate(p, "tables", "tables_create", "search")
    \/ \E p \in Procs : InitCheck(p, "search", "search_create", "commit")
    \/ \E p \in Procs : InitCreate(p, "search", "search_create", "commit")
    \/ \E p \in Procs : InitTablesSqlite(p)
    \/ \E p \in Procs : InitSearchSqlite(p)
    \/ \E p \in Procs : InitCommit(p)
    \/ \E p \in Procs : InitEnsure(p)
    \/ \E p \in Procs : InitFail(p)

SpecBoot == InitBoot /\ [][NextBoot]_vars

\* C13: a failure of schema initialisation is fatal.  A process is polling
\* only when init_db has completed with the tables and the search structures
\* created.
C13_PollingOnlyWhenInitialised ==
    \A p \in Procs :
        boot[p].phase = "polling" => {"tables", "search"} \subseteq catalog

\* C15: init_db can be repeated and run from two process starts at once.  No
\* call ends with an "already exists" failure, and no step of init_db
\* changes a row or the contents of the search index.
C15_InitRepeatable ==
    [][/\ \A p \in Procs : boot'[p].error # "already exists"
       /\ data' = data
      ]_vars

\* ------------------------------------------------------ absorbed failures
\* the statement in the try block of search_books raises: on SQLite in every
\* call (see search_books); the Postgres branch has no try block
FullTextStatementRaises == ~USE_POSTGRES

\* C14: no operation silently discards an unexpected failure.  A call in
\* which a statement raised for a reason other than the "already exists"
\* conflict of add_saved_book and add_category ends with an error at the
\* caller: the full-text statement of search_books, and any statement of a
\* call that is under way.
C14_FailuresPropagate ==
    [][/\ \A p \in Procs : \A q \in Queries : \A l \in Limits :
            (search_books(p, q, l) /\ FullTextStatementRaises) => ret'.status = "error"
       /\ \A p \in Procs : Fail(p) => ret'.status = "error"
      ]_vars

\* ------------------------- specification: concurrent upserts of one user
NextUpsertRace ==
    \/ \E p \in Procs : UuSelect(p, 1, "x", "X")
    \/ \E p \in Procs : UuWrite(p) /\ now' <= UsersMaxClock
    \/ \E p \in Procs : UuCommit(p)
    \/ \E p \in Procs : \E blocked \in BOOLEAN : set_block(p, 1, blocked)

SpecUpsertRace == Init /\ [][NextUpsertRace]_vars

\* C16: concurrent upsert_user calls for one user id that had no row all
\* complete without error, in every interleaving of their statements, and
\* leave exactly one row with that id.
C16_ConcurrentUpsertSucceeds ==
    /\ ret.op = "upsert_user" => ret.status = "ok"
    /\ Cardinality(UsersById(users, 1)) <= 1

\* ------------------------------------------------------------- middlewares
\* dp.update.middleware(TrafficMiddleware()) is registered first and is the
\* outer one: its handler is ReactionMiddleware.__call__, whose handler is
\* the downstream handler.  Updates are handled as tasks of one event loop:
\* code between two awaits is one step.

\* TrafficMiddleware.__call__ up to "await handler": count += 1, then the
\* logging inside try/except Exception
TrafficCall(u, logging_raises) ==
    /\ mw.at[u] = "new"
    /\ mw' = [mw EXCEPT !.count = @ + 1,
                        !.raised[u] = IF logging_raises THEN @ \cup {"logging"} ELSE @,
                        !.at[u] = "reaction"]
    /\ UNCHANGED <<config, catalog, boot, data>>

\* ReactionMiddleware.__call__ up to its first await: for a Message, and if
\* neither the import nor data.get("bot") raises, it awaits add_reaction
ReactionCall(u, is_message, raises) ==
    /\ mw.at[u] = "reaction"
    /\ mw' = [mw EXCEPT !.raised[u] = IF raises THEN @ \cup {"reaction"} ELSE @,
                        !.at[u] = IF is_message /\ ~raises THEN "add_reaction"
                                  ELSE "handler"]
    /\ UNCHANGED <<config, catalog, boot, data>>

\* add_reaction raises and nothing catches it
AddReactionUncaught(u, raises) ==
    /\ mw.at[u] = "add_reaction"
    /\ mw' = IF raises
             THEN [mw EXCEPT !.raised[u] = @ \cup {"add_reaction"},
                             !.returned[u] = "exception", !.at[u] = "done"]
             ELSE [mw EXCEPT !.at[u] = "answer_with_effect"]
    /\ UNCHANGED <<config, catalog, boot, data>>

\* await add_reaction(...) returns, or raises into "except Exception: pass"
AddReaction(u, raises) ==
    /\ mw.at[u] = "add_reaction"
    /\ mw' = [mw EXCEPT !.raised[u] = IF raises THEN @ \cup {"add_reaction"} ELSE @,
                        !.at[u] = IF raises THEN "handler" ELSE "answer_with_effect"]
    /\ UNCHANGED <<config, catalog, boot, data>>

\* await answer_with_effect(...) returns, or raises into the same except
AnswerWithEffect(u, raises) ==
    /\ mw.at[u] = "answer_with_effect"
    /\ mw' = [mw EXCEPT !.raised[u] = IF raises THEN @ \cup {"answer_with_effect"} ELSE @,
                        !.at[u] = "handler"]
    /\ UNCHANGED <<config, catalog, boot, data>>

\* "return await handler(event, data)" of both middlewares: the downstream
\* handler runs and what it produces, a result or an exception, is what the
\* chain gives back
Handler(u, outcome) ==
    /\ mw.at[u] = "handler"
    /\ mw' = [mw EXCEPT !.invoked[u] = @ + 1,
                        !.produced[u] = outcome,
                        !.returned[u] = outcome,
                        !.at[u] = "done"]
    /\ UNCHANGED <<config, catalog, boot, data>>

\* ----------------------------------------------- specification: middlewares
NextMiddleware ==
    \/ \E u \in Updates : \E logging_raises \in BOOLEAN : TrafficCall(u, logging_raises)
    \/ \E u \in Updates : \E is_message \in BOOLEAN : \E raises \in BOOLEAN :
            ReactionCall(u, is_message, raises)
    \/ \E u \in Updates : \E raises \in BOOLEAN : AddReaction(u, raises)
    \/ \E u \in Updates : \E raises \in BOOLEAN : AnswerWithEffect(u, raises)
    \/ \E u \in Updates : \E outcome \in {"result", "exception"} : Handler(u, outcome)

SpecMiddleware == Init /\ [][NextMiddleware]_vars

\* C17: every update that has passed the two middlewares had the downstream
\* handler invoked exactly once and got the handler's outcome back, whatever
\* raised on the way; no update has the handler invoked twice; and
\* TrafficMiddleware.count is the number of updates it was called with.
C17_HandlerOncePerUpdate ==
    /\ \A u \in Updates :
        /\ mw.invoked[u] <= 1
        /\ mw.at[u] = "done" =>
                /\ mw.invoked[u] = 1
                /\ mw.returned[u] = mw.produced[u]
    /\ mw.count = Cardinality({u \in Updates : mw.at[u] # "new"})

\* an update is through for which logging and add_reaction raised, another
\* for which answer_with_effect raised, and both were counted
C17_Witness ==
    /\ mw.count = 2
    /\ \E u \in Updates : \E v \in Updates :
        /\ mw.at[u] = "done"
        /\ mw.raised[u] = {"logging", "add_reaction"}
        /\ mw.at[v] = "done"
        /\ "answer_with_effect" \in mw.raised[v]
        /\ mw.returned[v] = "result"

=============================================================================
